---- MODULE Spec2Model ----
(***************************************************************************)
(* The three saga handlers of the airline booking backend:                 *)
(*   reserve-booking/reserve.py, confirm-booking/confirm.py and            *)
(*   collect-payment/collect.py.                                           *)
(*                                                                         *)
(* The booking table is a DynamoDB table keyed by "id".  An absent         *)
(* attribute (and Python's None) is the string None; bookingReference is   *)
(* a sequence of base64 digits, empty when the attribute is absent.        *)
(* createdAt (a wall-clock string fixed once per invocation) is left out   *)
(* of the item.  The booking table is taken to be available: an operation  *)
(* on it fails only when its ConditionExpression is false.                 *)
(*                                                                         *)
(* Spec     : the orchestrator's sequential use, one whole handler per     *)
(*            action, the response held in `last` until it is returned.    *)
(* SpecConc : invocations interleaved at the granularity of their          *)
(*            individual operations on the booking table.                  *)
(***************************************************************************)
EXTENDS Integers, Sequences, FiniteSets, TLC

VARIABLES table, nIssued, last, running

vars == <<table, nIssued, last, running>>

\* ------------------------------------------------------------------ bounds
MaxIds == 2

MaxInFlight == 1

\* ------------------------------------------------------------- basic values
None == "None"

Empty == ""

UUIDPool == <<"uuid-1", "uuid-2", "uuid-3", "uuid-4">>

UUIDs == {UUIDPool[i] : i \in 1..MaxIds}

FixedKey == "bf313090-82f4-4698-8eb8-29489f242c7d"

Keys == UUIDs \cup {FixedKey}

\* random.random() and the configured probabilities, in hundredths
Draws == {25, 50, 75}

Probs == {0, 50, 100}

\* ------------------------------------------------------------ python idioms
\* `a == True & b == True`: & binds tighter than ==, so this is the chained
\* comparison  a == (True & b) == True,  i.e. (a == b) and (b == True).
PyChainEq(a, b) == (a = b) /\ (b = TRUE)

Truthy(v) == v # None /\ v # Empty

\* ------------------------------------------------------- secrets.token_urlsafe
NBytes == 4

Pad == 64

\* secrets.token_bytes(NBytes): two of the possible outcomes
TokenBytes == {[i \in 1..NBytes |-> 0], [i \in 1..NBytes |-> 255 - 60 * i]}

RECURSIVE B64Encode(_)
B64Encode(bs) ==
    IF Len(bs) = 0 THEN <<>>
    ELSE IF Len(bs) = 1 THEN
        <<bs[1] \div 4, (bs[1] % 4) * 16, Pad, Pad>>
    ELSE IF Len(bs) = 2 THEN
        <<bs[1] \div 4, (bs[1] % 4) * 16 + (bs[2] \div 16), (bs[2] % 16) * 4, Pad>>
    ELSE
        <<bs[1] \div 4, (bs[1] % 4) * 16 + (bs[2] \div 16),
          (bs[2] % 16) * 4 + (bs[3] \div 64), bs[3] % 64>>
        \o B64Encode(SubSeq(bs, 4, Len(bs)))

RECURSIVE RStripPad(_)
RStripPad(s) ==
    IF Len(s) > 0 /\ s[Len(s)] = Pad THEN RStripPad(SubSeq(s, 1, Len(s) - 1)) ELSE s

token_urlsafe(bs) == RStripPad(B64Encode(bs))

\* --------------------------------------------------------------- the table
Item(id, sid, tn, flight, checked, cust, tok, st, ref) ==
    [id |-> id, stateExecutionId |-> sid, typename |-> tn,
     bookingOutboundFlightId |-> flight, checkedIn |-> checked, customer |-> cust,
     paymentToken |-> tok, status |-> st, bookingReference |-> ref]

\* table.put_item(Item=item): creates the item or replaces it whole
PutItem(t, item) ==
    [k \in DOMAIN t \cup {item.id} |-> IF k = item.id THEN item ELSE t[k]]

RECURSIVE PutLoop(_, _, _)
PutLoop(t, item, n) == IF n = 0 THEN t ELSE PutLoop(PutItem(t, item), item, n - 1)

\* table.update_item(Key={'id': key}, UpdateExpression="set checkedIn=:r") with
\* :r = True and no ConditionExpression: an absent item is created from the key
UpdateCheckedIn(t, key) ==
    IF key \in DOMAIN t
    THEN [t EXCEPT ![key].checkedIn = TRUE]
    ELSE PutItem(t, Item(key, None, None, None, TRUE, None, None, None, <<>>))

\* confirm_booking's update with the status assignment lost
UpdateConfirmKeepsStatus(t, key, ref) ==
    IF key \in DOMAIN t
    THEN [ok |-> TRUE, table |-> [t EXCEPT ![key].bookingReference = ref]]
    ELSE [ok |-> FALSE, table |-> t]

\* confirm_booking's update writing the reference only where none is stored
UpdateConfirmKeepsReference(t, key, ref) ==
    IF key \in DOMAIN t
    THEN [ok |-> TRUE,
          table |-> [t EXCEPT ![key].status = "CONFIRMED",
                              ![key].bookingReference = IF @ = <<>> THEN ref ELSE @]]
    ELSE [ok |-> FALSE, table |-> t]

\* confirm_booking's update with the ConditionExpression lost
UpdateConfirmUpsert(t, key, ref) ==
    IF key \in DOMAIN t
    THEN [ok |-> TRUE,
          table |-> [t EXCEPT ![key].bookingReference = ref, ![key].status = "CONFIRMED"]]
    ELSE [ok |-> TRUE,
          table |-> PutItem(t, Item(key, None, None, None, FALSE, None, None,
                                    "CONFIRMED", ref))]

\* ConditionExpression "id = :idVal" with :idVal the key itself: on an absent
\* item the attribute id does not exist and the comparison is false
ConditionHolds(t, key) == key \in DOMAIN t /\ t[key].id = key

\* table.update_item of confirm_booking; ok = FALSE is the ClientError
\* (ConditionalCheckFailedException), which leaves the table as it was
UpdateConfirm(t, key, ref) ==
    IF ConditionHolds(t, key)
    THEN [ok |-> TRUE,
          table |-> [t EXCEPT ![key].bookingReference = ref, ![key].status = "CONFIRMED"]]
    ELSE [ok |-> FALSE, table |-> t]

\* ---------------------------------------------------------------- requests
Event(flight, cust, charge, name, bid) ==
    [outboundFlightId |-> flight, customerId |-> cust, chargeId |-> charge,
     name |-> name, bookingId |-> bid]

NoEvent == Event(None, None, None, None, None)

ReserveEvents ==
    {Event(f, c, ch, n, None) :
        f \in {None, "FL1"}, c \in {None, "C1"}, ch \in {None, "CH1"},
        n \in {None, "exec-1"}}

ConfirmEvents == {Event(None, None, None, None, b) : b \in {None, Empty} \cup Keys}

PaymentEvents ==
    {Event(None, c, ch, None, None) : c \in {None, "C1"}, ch \in {None, Empty, "CH1"}}

\* the validation with any() in place of all()
is_booking_request_valid_any(ev) ==
    \E x \in {"outboundFlightId", "customerId", "chargeId"} : ev[x] # None

\* all(x in booking for x in ["outboundFlightId", "customerId", "chargeId"])
is_booking_request_valid(ev) ==
    \A x \in {"outboundFlightId", "customerId", "chargeId"} : ev[x] # None

\* ------------------------------------------------- fault injection decisions
Policy(failAt, lookups, am, preA, preB, flagA, flagB, cp, ce, cancel) ==
    [failAt |-> failAt, lookups |-> lookups, anomaly_mode |-> am,
     preA |-> preA, preB |-> preB, flagA |-> flagA, flagB |-> flagB,
     cancel_path |-> cp, cancelExecution |-> ce, executeCancel |-> cancel]

\* a get_config that raises: the k-th lookup of the handler fails
FailedPolicy(k) == Policy(k, k, FALSE, FALSE, FALSE, FALSE, FALSE, FALSE, FALSE, FALSE)

NoPolicy == Policy(0, 0, FALSE, FALSE, FALSE, FALSE, FALSE, FALSE, FALSE, FALSE)

\* the cancel decision with the draw compared the wrong way round
ExecuteCancelInverted(cancel_path, cancelExecution) ==
    PyChainEq(cancel_path, ~cancelExecution)

\* executeCancel = cancel_path == True & cancelExecution == True
ExecuteCancel(cancel_path, cancelExecution) == PyChainEq(cancel_path, cancelExecution)

\* the tie-break left out
TieBreakNone(dow, upd, r) == [dow |-> dow, upd |-> upd]

\* reserve.py: if both attacks were chosen, cancel one of them randomly
TieBreak(dow, upd, r) ==
    IF upd /\ dow
    THEN IF r < 50 THEN [dow |-> dow, upd |-> FALSE] ELSE [dow |-> FALSE, upd |-> upd]
    ELSE [dow |-> dow, upd |-> upd]

ReserveLookups == 5

ReservePolicy(am, pDow, r1, pUpd, r2, r3, cp, pCancel, r4) ==
    LET dow == PyChainEq(am, r1 < pDow)
        upd == PyChainEq(am, r2 < pUpd)
        tb  == TieBreak(dow, upd, r3)
        ce  == r4 < pCancel
    IN  Policy(0, ReserveLookups, am, dow, upd, tb.dow, tb.upd, cp, ce, ExecuteCancel(cp, ce))

ReservePolicies ==
    {FailedPolicy(k) : k \in 1..ReserveLookups} \cup
    {ReservePolicy(am, pDow, r1, pUpd, r2, r3, cp, pCancel, r4) :
        am \in BOOLEAN, pDow \in Probs, r1 \in Draws, pUpd \in Probs, r2 \in Draws,
        r3 \in Draws, cp \in BOOLEAN, pCancel \in Probs, r4 \in Draws}

ConfirmLookups == 4

\* confirm.py: one probability, then randNum picks DataLeakage (< 0.5) or
\* Misuse (> 0.5); randNum is drawn only when the anomaly draw succeeded
ConfirmPolicy(am, p, r1, randNum, cp, pCancel, r3) ==
    LET use == r1 < p
        dl  == use /\ randNum < 50
        pm  == use /\ randNum > 50
        ce  == r3 < pCancel
        fa  == PyChainEq(am, dl)
        fb  == PyChainEq(am, pm)
    IN  Policy(0, ConfirmLookups, am, fa, fb, fa, fb, cp, ce, ExecuteCancel(cp, ce))

ConfirmPolicies ==
    {FailedPolicy(k) : k \in 1..ConfirmLookups} \cup
    {ConfirmPolicy(am, p, r1, randNum, cp, pCancel, r3) :
        am \in BOOLEAN, p \in Probs, r1 \in Draws, randNum \in Draws,
        cp \in BOOLEAN, pCancel \in Probs, r3 \in Draws}

PaymentLookups == 5

\* collect.py: dowED_executeAnomaly = anomaly_mode & dowED_anomaluseExecution
PaymentPolicy(am, p, r1, cp, pCancel, r2) ==
    LET fa == am /\ (r1 < p)
        ce == r2 < pCancel
    IN  Policy(0, PaymentLookups, am, fa, FALSE, fa, FALSE, cp, ce, ExecuteCancel(cp, ce))

PaymentPolicies ==
    {FailedPolicy(k) : k \in 1..PaymentLookups} \cup
    {PaymentPolicy(am, p, r1, cp, pCancel, r2) :
        am \in BOOLEAN, p \in Probs, r1 \in Draws, cp \in BOOLEAN,
        pCancel \in Probs, r2 \in Draws}

\* ---------------------------------------------------------------- responses
\* what an invocation met outside the booking table (did the object upload and
\* the extra configuration query succeed) and the keyed record as it was found
Obs(uploadOk, queryOk, present, status, reference) ==
    [uploadOk |-> uploadOk, queryOk |-> queryOk, present |-> present,
     statusBefore |-> status, referenceBefore |-> reference]

NoObs == Obs(TRUE, TRUE, FALSE, None, <<>>)

Resp(handler, ev, pol, result, nPut, nUpdate, nUpload, nSleep, nQuery, written, bookingId, reference, price, obs) ==
    [handler |-> handler, event |-> ev, pol |-> pol, result |-> result,
     nPut |-> nPut, nUpdate |-> nUpdate, nUpload |-> nUpload, nSleep |-> nSleep,
     nQuery |-> nQuery, written |-> written, bookingId |-> bookingId,
     reference |-> reference, price |-> price, obs |-> obs]

NoResp == Resp("none", NoEvent, NoPolicy, None, 0, 0, 0, 0, 0, {}, None, <<>>, 0, NoObs)

\* a handler that ends before it touches anything but the configuration
Raised(handler, ev, pol, result, nSleep) ==
    Resp(handler, ev, pol, result, 0, 0, 0, nSleep, 0, {}, None, <<>>, 0, NoObs)

\* ------------------------------------------------------ reservation handler
NumDow == 20

\* num_of_oper = 1; 0 under the substituted update; 20 under the amplified write
NumOfOper(dow, upd) == IF dow THEN NumDow ELSE IF upd THEN 0 ELSE 1

\* the booking item built without its status attribute
BookingItemNoStatus(ev, id) ==
    Item(id, ev.name, "Booking", ev.outboundFlightId, FALSE, ev.customerId,
         ev.chargeId, None, <<>>)

BookingItem(ev, id) ==
    Item(id, ev.name, "Booking", ev.outboundFlightId, FALSE, ev.customerId,
         ev.chargeId, "UNCONFIRMED", <<>>)

\* lambda_handler up to the call of reserve_booking, and then booking["name"]
ReserveEntry(ev, pol) ==
    IF pol.failAt # 0 THEN "ConfigError"
    ELSE IF pol.executeCancel THEN "Cancel booking request"
    ELSE IF ~is_booking_request_valid(ev) THEN "Invalid booking request"
    ELSE IF ev.name = None THEN "KeyError"
    ELSE "run"

\* uuid.uuid4() is the first statement of reserve_booking
ReachesUuid(ev, pol) == ReserveEntry(ev, pol) \in {"KeyError", "run"}

reserve_booking(t, ev, dow, upd, id) ==
    LET item == BookingItem(ev, id)
        n    == NumOfOper(dow, upd)
        t1   == IF upd THEN UpdateCheckedIn(t, FixedKey) ELSE t
    IN  [table |-> PutLoop(t1, item, n), nPut |-> n, nUpdate |-> IF upd THEN 1 ELSE 0,
         written |-> IF n > 0 THEN {item} ELSE {}]

ReserveHandler(t, ev, pol, id) ==
    LET entry == ReserveEntry(ev, pol)
        rb    == reserve_booking(t, ev, pol.flagA, pol.flagB, id)
    IN  IF entry # "run"
        THEN [table |-> t, resp |-> Raised("reserve", ev, pol, entry, 0)]
        ELSE [table |-> rb.table,
              resp |-> Resp("reserve", ev, pol, "ok", rb.nPut, rb.nUpdate, 0, 0, 0,
                            rb.written, id, <<>>, 0, NoObs)]

\* ----------------------------------------------------- confirmation handler
\* upload_file_to_bucket: the put of the decoy object; a ClientError is printed
\* and turned into the return value False
upload_file_to_bucket(uploadOk) == uploadOk

\* the record confirm_booking's update finds under the key
Found(t, key, uploadOk, queryOk) ==
    IF key \in DOMAIN t
    THEN Obs(uploadOk, queryOk, TRUE, t[key].status, t[key].bookingReference)
    ELSE Obs(uploadOk, queryOk, FALSE, None, <<>>)

\* the update comes first; the return value of upload_file_to_bucket is dropped;
\* the ClientError of the extra get_config is caught by the except clause and
\* re-raised as BookingConfirmationException
confirm_booking(t, booking_id, dl, pm, bs, uploadOk, queryOk) ==
    LET reference == token_urlsafe(bs)
        u == UpdateConfirm(t, booking_id, reference)
        uploaded == dl /\ upload_file_to_bucket(uploadOk)
        queried == ~pm \/ queryOk
    IN  IF ~u.ok
        THEN [table |-> t, ok |-> FALSE, reference |-> <<>>, nUpload |-> 0, nQuery |-> 0,
              obs |-> Found(t, booking_id, TRUE, TRUE)]
        ELSE [table |-> u.table, ok |-> queried,
              reference |-> IF queried THEN reference ELSE <<>>,
              nUpload |-> IF dl THEN 1 ELSE 0, nQuery |-> IF pm THEN 1 ELSE 0,
              obs |-> Found(t, booking_id, ~dl \/ uploaded, queried)]

ConfirmHandler(t, ev, pol, bs, uploadOk, queryOk) ==
    LET cb == confirm_booking(t, ev.bookingId, pol.flagA, pol.flagB, bs, uploadOk, queryOk)
    IN  IF pol.failAt # 0
        THEN [table |-> t, resp |-> Raised("confirm", ev, pol, "ConfigError", 0)]
        ELSE IF pol.executeCancel
        THEN [table |-> t, resp |-> Raised("confirm", ev, pol, "Cancel booking request", 0)]
        ELSE IF ~Truthy(ev.bookingId)
        THEN [table |-> t, resp |-> Raised("confirm", ev, pol, "Invalid booking ID", 0)]
        ELSE [table |-> cb.table,
              resp |-> Resp("confirm", ev, pol,
                            IF cb.ok THEN "ok" ELSE "BookingConfirmationException",
                            0, 1, cb.nUpload, 0, cb.nQuery, {}, None, cb.reference, 0,
                            cb.obs)]

\* ---------------------------------------------------------- payment handler
Price == 10

PaymentHandler(ev, pol) ==
    LET nSleep == IF pol.flagA THEN 1 ELSE 0
    IN  IF pol.failAt # 0 THEN Raised("payment", ev, pol, "ConfigError", 0)
        ELSE IF pol.executeCancel
        THEN Raised("payment", ev, pol, "Cancel booking request", 0)
        ELSE IF ~Truthy(ev.chargeId)
        THEN Raised("payment", ev, pol, "Invalid Charge ID", nSleep)
        ELSE Resp("payment", ev, pol, "ok", 0, 0, 0, nSleep, 0, {}, None, <<>>, Price, NoObs)

\* ------------------------------------------------------- in-flight invocations
Slots == 1..MaxInFlight

NoItem == Item(None, None, None, None, FALSE, None, None, None, <<>>)

Idle == [active |-> FALSE, item |-> NoItem, upd |-> FALSE, left |-> 0]

EmptyTable == [k \in {} |-> NoItem]

Init ==
    /\ table = EmptyTable
    /\ nIssued = 0
    /\ last = NoResp
    /\ running = [p \in Slots |-> Idle]

\* ------------------------------------------- Spec: one whole handler per action
Reserve ==
    /\ last = NoResp
    /\ \E ev \in ReserveEvents, pol \in ReservePolicies :
          /\ ReachesUuid(ev, pol) => nIssued < MaxIds
          /\ LET uses == ReachesUuid(ev, pol)
                 id   == IF uses THEN UUIDPool[nIssued + 1] ELSE None
                 h    == ReserveHandler(table, ev, pol, id)
             IN  /\ table' = h.table
                 /\ last' = h.resp
                 /\ nIssued' = IF uses THEN nIssued + 1 ELSE nIssued
    /\ UNCHANGED running

\* what an invocation consumes besides its event and policy: the token bytes if
\* it reaches confirm_booking, the outcome of the upload if the decoy variant
\* runs, the outcome of the extra query if the misuse variant runs
ConfirmDraws(ev, pol) ==
    IF pol.failAt # 0 \/ pol.executeCancel \/ ~Truthy(ev.bookingId)
    THEN {<<CHOOSE bs \in TokenBytes : TRUE, TRUE, TRUE>>}
    ELSE TokenBytes \X (IF pol.flagA THEN BOOLEAN ELSE {TRUE}) \X (IF pol.flagB THEN BOOLEAN ELSE {TRUE})

ConfirmInputs ==
    UNION {{<<ev, pol, d[1], d[2], d[3]>> : d \in ConfirmDraws(ev, pol)} : ev \in ConfirmEvents, pol \in ConfirmPolicies}

\* one invocation of the confirmation handler, its response left in `last`
ConfirmStep ==
    /\ \E x \in ConfirmInputs :
          LET h == ConfirmHandler(table, x[1], x[2], x[3], x[4], x[5])
          IN  /\ table' = h.table
              /\ last' = h.resp
    /\ UNCHANGED <<nIssued, running>>

Confirm == last = NoResp /\ ConfirmStep

Payment ==
    /\ last = NoResp
    /\ \E ev \in PaymentEvents, pol \in PaymentPolicies :
          last' = PaymentHandler(ev, pol)
    /\ UNCHANGED <<table, nIssued, running>>

\* the response reaches the orchestrator
Return ==
    /\ last # NoResp
    /\ last' = NoResp
    /\ UNCHANGED <<table, nIssued, running>>

Next == Reserve \/ Confirm \/ Payment \/ Return

Spec == Init /\ [][Next]_vars

\* ---- SpecPair: as Spec, and a confirmation may directly follow a successful
\* one, whose response is then still in `last` next to the new one in `last'`
Reconfirm ==
    /\ last.handler = "confirm"
    /\ last.result = "ok"
    /\ ConfirmStep

NextPair == Reserve \/ Confirm \/ Payment \/ Return \/ Reconfirm

SpecPair == Init /\ [][NextPair]_vars

\* --------------------------- SpecConc: one booking-table operation per action
\* the invocations that reach reserve_booking's first operation on the table:
\* the request and the two flags lambda_handler passes on
ReserveRuns ==
    {<<x[1], x[2].flagA, x[2].flagB>> :
        x \in {y \in ReserveEvents \X ReservePolicies : ReserveEntry(y[1], y[2]) = "run"}}

ReserveStarts(id) ==
    {[active |-> TRUE, item |-> BookingItem(x[1], id), upd |-> x[3],
      left |-> NumOfOper(x[2], x[3])] : x \in ReserveRuns}

ReserveBegin(p) ==
    /\ ~running[p].active
    /\ nIssued < MaxIds
    /\ \E r \in ReserveStarts(UUIDPool[nIssued + 1]) :
          running' = [running EXCEPT ![p] = r]
    /\ nIssued' = nIssued + 1
    /\ UNCHANGED <<table, last>>

ReserveOp(p) ==
    /\ running[p].active
    /\ LET r    == running[p]
           r1   == IF r.upd THEN [r EXCEPT !.upd = FALSE] ELSE [r EXCEPT !.left = r.left - 1]
       IN  /\ table' = IF r.upd THEN UpdateCheckedIn(table, FixedKey)
                       ELSE PutItem(table, r.item)
           /\ running' = [running EXCEPT ![p] = IF r1.left = 0 THEN Idle ELSE r1]
    /\ UNCHANGED <<nIssued, last>>

\* the confirmations that reach confirm_booking's update: the key and the token
ConfirmRuns ==
    {<<x[1].bookingId, token_urlsafe(x[3])>> :
        x \in {y \in ConfirmEvents \X ConfirmPolicies \X TokenBytes :
                  /\ y[2].failAt = 0
                  /\ ~y[2].executeCancel
                  /\ Truthy(y[1].bookingId)}}

\* a whole confirmation: its one operation on the table is the update
ConfirmOp ==
    /\ \E x \in ConfirmRuns : table' = UpdateConfirm(table, x[1], x[2]).table
    /\ UNCHANGED <<nIssued, last, running>>

NextConc == (\E p \in Slots : ReserveBegin(p)) \/ (\E p \in Slots : ReserveOp(p)) \/ ConfirmOp

SpecConc == Init /\ [][NextConc]_vars

\* ================================================================== claims
Handlers == {"reserve", "confirm", "payment"}

HasThree(ev) ==
    ev.outboundFlightId # None /\ ev.customerId # None /\ ev.chargeId # None

\* the step is one invocation of the named handler, `last'` its response
Invoked(h) == last = NoResp /\ last'.handler = h

SameExcept(t1, t2, k) ==
    /\ DOMAIN t2 = DOMAIN t1 \cup {k}
    /\ \A j \in DOMAIN t1 \ {k} : t2[j] = t1[j]

\* C1: a reservation request holding outboundFlightId, customerId and chargeId,
\* with the anomaly toggle and the cancel toggle both false, performs exactly
\* one put and no update; the record put is UNCONFIRMED, not checked in, holds
\* the request's values under an id that was not in the table, and that id is
\* what the handler returns.
C1_ReserveNormalPath ==
    [][(/\ Invoked("reserve")
        /\ last'.pol.failAt = 0
        /\ HasThree(last'.event)
        /\ ~last'.pol.anomaly_mode
        /\ ~last'.pol.cancel_path)
       => (/\ last'.result = "ok"
           /\ last'.nPut = 1
           /\ last'.nUpdate = 0
           /\ last'.bookingId \notin DOMAIN table
           /\ SameExcept(table, table', last'.bookingId)
           /\ table'[last'.bookingId].status = "UNCONFIRMED"
           /\ table'[last'.bookingId].checkedIn = FALSE
           /\ table'[last'.bookingId].bookingOutboundFlightId = last'.event.outboundFlightId
           /\ table'[last'.bookingId].customer = last'.event.customerId
           /\ table'[last'.bookingId].paymentToken = last'.event.chargeId
           /\ last'.written = {table'[last'.bookingId]})]_vars

\* C2: in each of the three handlers, when cancel_mode/Activate is true and the
\* draw is below cancel_mode/Prob, the handler raises the cancellation error
\* and has done no put, no update, no upload and no sleep, whatever anomaly
\* flags it computed; the booking table is as it was.
C2_CancelPrecedesWork ==
    [][(/\ last = NoResp
        /\ last'.handler \in Handlers
        /\ last'.pol.cancel_path
        /\ last'.pol.cancelExecution)
       => (/\ last'.result = "Cancel booking request"
           /\ last'.nPut = 0
           /\ last'.nUpdate = 0
           /\ last'.nUpload = 0
           /\ last'.nSleep = 0
           /\ last'.nQuery = 0
           /\ table' = table)]_vars

\* a payment invocation cancelled although its sleep anomaly flag was true
C2_Witness ==
    /\ last.handler = "payment"
    /\ last.result = "Cancel booking request"
    /\ last.pol.cancel_path /\ last.pol.cancelExecution
    /\ last.pol.flagA

InvalidInput(r) ==
    \/ r.handler = "reserve" /\ ~HasThree(r.event)
    \/ r.handler = "confirm" /\ r.event.bookingId = None
    \/ r.handler = "payment" /\ r.event.chargeId = None

ValidationError(h) ==
    IF h = "reserve" THEN "Invalid booking request"
    ELSE IF h = "confirm" THEN "Invalid booking ID"
    ELSE "Invalid Charge ID"

NoStoreInteraction(r) ==
    r.nPut = 0 /\ r.nUpdate = 0 /\ r.nUpload = 0 /\ r.nQuery = 0 /\ r.written = {}

\* C3 as stated: a request with invalid input always ends with the validation
\* error, before any configuration lookup, cancel draw, sleep or store
\* interaction.
C3_ValidationFirst ==
    InvalidInput(last)
    => (/\ last.result = ValidationError(last.handler)
        /\ last.pol.lookups = 0
        /\ last.nSleep = 0
        /\ NoStoreInteraction(last))

\* C3 as amended: a request with invalid input, when the configuration lookups
\* succeed and the cancel decision does not trigger, ends with the validation
\* error before any store interaction; the lookups have been made by then.
C3_ValidationBeforeStore ==
    [][(/\ last = NoResp
        /\ InvalidInput(last')
        /\ last'.pol.failAt = 0
        /\ ~(last'.pol.cancel_path /\ last'.pol.cancelExecution))
       => (/\ last'.result = ValidationError(last'.handler)
           /\ last'.pol.lookups > 0
           /\ NoStoreInteraction(last')
           /\ table' = table)]_vars

\* a payment request without chargeId is rejected after the anomaly's sleep
C3_Witness ==
    /\ last.handler = "payment"
    /\ last.event.chargeId = None
    /\ last.result = "Invalid Charge ID"
    /\ last.nSleep = 1

\* C4: a confirmation of an existing UNCONFIRMED record, with the anomaly
\* toggle and the cancel toggle both false, performs one update after which
\* the record is CONFIRMED with bookingReference equal to the returned token
\* of six characters; nothing else in the table changes.
C4_ConfirmNormalPath ==
    [][(/\ Invoked("confirm")
        /\ last'.pol.failAt = 0
        /\ ~last'.pol.anomaly_mode
        /\ ~last'.pol.cancel_path
        /\ last'.event.bookingId \in DOMAIN table
        /\ table[last'.event.bookingId].status = "UNCONFIRMED")
       => (/\ last'.result = "ok"
           /\ last'.nUpdate = 1
           /\ last'.nPut = 0
           /\ Len(last'.reference) = 6
           /\ table' = [table EXCEPT
                  ![last'.event.bookingId].status = "CONFIRMED",
                  ![last'.event.bookingId].bookingReference = last'.reference])]_vars

\* a confirmation on the normal path has returned the stored reference of a
\* reserved booking, next to another record of the table
C4_Witness ==
    /\ last.handler = "confirm"
    /\ last.result = "ok"
    /\ ~last.pol.anomaly_mode /\ ~last.pol.cancel_path
    /\ last.event.bookingId \in UUIDs \cap DOMAIN table
    /\ table[last.event.bookingId].status = "CONFIRMED"
    /\ table[last.event.bookingId].bookingReference = last.reference
    /\ table[last.event.bookingId].paymentToken = "CH1"
    /\ Cardinality(DOMAIN table) > 1

\* C5: a record that is CONFIRMED is in no later state UNCONFIRMED or absent.
C5_StatusMonotonic ==
    [][\A k \in DOMAIN table :
          table[k].status = "CONFIRMED"
          => (k \in DOMAIN table' /\ table'[k].status = "CONFIRMED")]_vars

\* C6: a confirmation whose bookingId names no record leaves the table as it
\* was, and when it reaches confirm_booking the update is rejected and the
\* handler raises BookingConfirmationException.
C6_ConfirmNeverCreates ==
    [][(/\ Invoked("confirm")
        /\ last'.event.bookingId \notin DOMAIN table)
       => (/\ table' = table
           /\ last'.event.bookingId \notin DOMAIN table'
           /\ (/\ last'.pol.failAt = 0
               /\ ~last'.pol.executeCancel
               /\ Truthy(last'.event.bookingId))
              => (/\ last'.result = "BookingConfirmationException"
                  /\ last'.nUpdate = 1
                  /\ last'.reference = <<>>))]_vars

\* a confirmation of an id that is not in the table has been rejected
C6_Witness ==
    /\ last.handler = "confirm"
    /\ last.result = "BookingConfirmationException"
    /\ last.event.bookingId \in Keys
    /\ last.event.bookingId \notin DOMAIN table

CreatedByInsert(k) ==
    /\ table[k].id = k
    /\ table[k].typename = "Booking"
    /\ table[k].stateExecutionId # None
    /\ table[k].paymentToken # None

\* C7 as stated: every record of the table was created by a reservation insert
\* and has status UNCONFIRMED or CONFIRMED.
C7_TableWellFormed ==
    \A k \in DOMAIN table :
        CreatedByInsert(k) /\ table[k].status \in {"UNCONFIRMED", "CONFIRMED"}

\* C7 as amended: every record other than the one under the fixed key was
\* created by a reservation insert and has status UNCONFIRMED or CONFIRMED;
\* the record under the fixed key is created by the substituted update with
\* only its key and checkedIn = true, and has no status unless a confirmation
\* set it to CONFIRMED.
C7_TableWellFormedButFixedKey ==
    /\ \A k \in DOMAIN table \ {FixedKey} :
          /\ k \in {UUIDPool[i] : i \in 1..nIssued}
          /\ CreatedByInsert(k)
          /\ table[k].status \in {"UNCONFIRMED", "CONFIRMED"}
    /\ FixedKey \in DOMAIN table
       => (/\ table[FixedKey].checkedIn = TRUE
           /\ table[FixedKey].typename = None
           /\ table[FixedKey].status \in {None, "CONFIRMED"})

\* the substituted update has created the fixed-key record, without a status,
\* next to a record a reservation inserted
C7_Witness ==
    /\ FixedKey \in DOMAIN table
    /\ table[FixedKey].status = None
    /\ \E k \in DOMAIN table \ {FixedKey} : table[k].status = "UNCONFIRMED"

\* C8: a reservation that passes the cancel check and validation with the
\* amplified-write flag true issues exactly 20 puts of one and the same record
\* and no update, and the table then holds that record, UNCONFIRMED.
C8_AmplifiedWrite ==
    [][(/\ Invoked("reserve")
        /\ last'.pol.failAt = 0
        /\ ~last'.pol.executeCancel
        /\ HasThree(last'.event)
        /\ last'.pol.flagA)
       => (/\ last'.nPut = 20
           /\ last'.nUpdate = 0
           /\ Cardinality(last'.written) = 1
           /\ last'.bookingId \in DOMAIN table'
           /\ last'.written = {table'[last'.bookingId]}
           /\ table'[last'.bookingId].status = "UNCONFIRMED")]_vars

\* C9: a reservation that passes the cancel check and validation with the
\* substituted-operation flag true issues one update against the fixed key and
\* no put, returns the generated id as a success, and no record with that id
\* exists at return.
C9_SubstitutedOperation ==
    [][(/\ Invoked("reserve")
        /\ last'.pol.failAt = 0
        /\ ~last'.pol.executeCancel
        /\ HasThree(last'.event)
        /\ last'.pol.flagB)
       => (/\ last'.nUpdate = 1
           /\ last'.nPut = 0
           /\ last'.result = "ok"
           /\ last'.bookingId \in UUIDs
           /\ last'.bookingId \notin DOMAIN table'
           /\ FixedKey \in DOMAIN table')]_vars

\* C10: the two flags passed to reserve_booking are never both true, so no
\* reservation issues both the substituted update and a put; when both
\* variants triggered, exactly one is left after the tie-break.
C10_VariantsExclusive ==
    last.handler = "reserve"
    => (/\ ~(last.pol.flagA /\ last.pol.flagB)
        /\ ~(last.nUpdate > 0 /\ last.nPut > 0)
        /\ (last.pol.preA /\ last.pol.preB) => (last.pol.flagA # last.pol.flagB))

\* both variants triggered and the tie-break kept the substituted update
C10_Witness ==
    /\ last.handler = "reserve"
    /\ last.result = "ok"
    /\ last.pol.preA /\ last.pol.preB
    /\ last.pol.flagB
    /\ last.nUpdate = 1

\* the step is one invocation of the confirmation handler that got as far as
\* confirm_booking, whether or not another confirmation went just before it
ConfirmRan ==
    /\ last'.handler = "confirm"
    /\ last'.pol.failAt = 0
    /\ ~last'.pol.executeCancel
    /\ Truthy(last'.event.bookingId)

\* the step is the second of two successful confirmations of the same booking
SecondOfTwo ==
    /\ ConfirmRan
    /\ last.handler = "confirm"
    /\ last.result = "ok"
    /\ last'.result = "ok"
    /\ last'.event.bookingId = last.event.bookingId

ReconfirmAccepted ==
    (/\ ConfirmRan
     /\ last'.obs.queryOk
     /\ last'.event.bookingId \in DOMAIN table
     /\ table[last'.event.bookingId].status = "CONFIRMED")
    => (/\ last'.result = "ok"
        /\ Len(last'.reference) = 6
        /\ table' = [table EXCEPT
               ![last'.event.bookingId].bookingReference = last'.reference])

\* C11 as stated: a confirmation (not cancelled, nothing it calls failing) of a
\* record that is already CONFIRMED succeeds, leaves it CONFIRMED, stores the
\* token it returns in place of the old reference; and after two successful
\* confirmations of one booking the stored reference is the one returned by
\* the later update while the reference returned by the earlier one is stored
\* in no record of the table.
C11_ReconfirmReplaces ==
    [][/\ ReconfirmAccepted
       /\ SecondOfTwo
          => (/\ table'[last'.event.bookingId].bookingReference = last'.reference
              /\ \A k \in DOMAIN table' : table'[k].bookingReference # last.reference)]_vars

\* C11 amended: as above, but the reference returned by the earlier of the two
\* confirmations is gone from the booking's record only when the two returned
\* tokens differ; equal tokens, and another booking holding the same token,
\* are possible.
C11_ReconfirmLastWins ==
    [][/\ ReconfirmAccepted
       /\ SecondOfTwo
          => (/\ table'[last'.event.bookingId].bookingReference = last'.reference
              /\ table'[last'.event.bookingId].status = "CONFIRMED"
              /\ last.reference # last'.reference
                 => table'[last'.event.bookingId].bookingReference # last.reference)]_vars

\* a confirmation found its record CONFIRMED under another reference and has
\* returned the reference now stored
C11_Witness ==
    /\ last.handler = "confirm"
    /\ last.result = "ok"
    /\ last.obs.present
    /\ last.obs.statusBefore = "CONFIRMED"
    /\ last.obs.referenceBefore # <<>>
    /\ last.obs.referenceBefore # last.reference
    /\ table[last.event.bookingId].status = "CONFIRMED"
    /\ table[last.event.bookingId].bookingReference = last.reference

\* C12: a confirmation that ends in BookingConfirmationException, whether the
\* update failed or a later step of confirm_booking did, leaves the status and
\* bookingReference of the booking's record as they were; and a failure of the
\* object upload alone does not make the handler fail.
C12_FailureAtomic ==
    [][Invoked("confirm")
       => (/\ (/\ last'.result = "BookingConfirmationException"
               /\ last'.event.bookingId \in DOMAIN table)
              => (/\ last'.event.bookingId \in DOMAIN table'
                  /\ table'[last'.event.bookingId].status
                         = table[last'.event.bookingId].status
                  /\ table'[last'.event.bookingId].bookingReference
                         = table[last'.event.bookingId].bookingReference)
           /\ (/\ ConfirmRan
               /\ last'.obs.present
               /\ ~last'.obs.uploadOk
               /\ last'.obs.queryOk)
              => last'.result = "ok")]_vars

====
